---- MODULE Spec2Model ----
(***************************************************************************)
(* Model of the memory ranking and conversation context engine of the      *)
(* Mentor/Ted agent: the turn log (src/src/memory.py), the reply paths of   *)
(* Ted (src/src/ted.py), memory retrieval (MemoryManager.retrieve) and the  *)
(* conversation segmenter (src/src/utils.py).                               *)
(*                                                                         *)
(* Strings are sequences of one-character strings.  Time is counted in      *)
(* whole hours.  Seven specifications share the variables:                  *)
(*   Spec          requests running concurrently against the turn log      *)
(*   SpecLog       append_message / fetch_recent callers on the turn log   *)
(*   SpecRetrieve  MemoryManager.retrieve applied to drawn search results   *)
(*   SpecFilter    filter_messages_by_time_gaps applied to drawn turns      *)
(*   SpecFetch     fetch_recent applied to drawn logs, offsets and limits   *)
(*   SpecResume    detect_conversation_resumption applied to drawn turns    *)
(*   SpecChat      the chat request that Ted and Mentor build               *)
(***************************************************************************)
EXTENDS Integers, Sequences, FiniteSets, TLC

(***************************************************************************)
(* Bounds of the model                                                     *)
(***************************************************************************)
\* number of requests that run concurrently (one thread each)
NumThreads == 2
\* number of threads that call append_message or fetch_recent concurrently
NumCallers == 3
\* longest token stream the chat-completion service produces
MaxTokens == 1
\* longest list of raw hits the search collaborator returns
MaxHits == 3
\* largest k (number of memories asked for) that retrieve is called with
MaxK == 3
\* longest list of turns with freely drawn timestamps handed to the segmenter
MaxMsgs == 4
\* by how many turns the longest list handed to the segmenter exceeds WINDOW_CAP
MaxOver == 2
\* longest log that fetch_recent pages through
MaxTurns == 5

(***************************************************************************)
(* Program constants (src/src/config.py)                                   *)
(***************************************************************************)
MAX_THREAD_WORKERS == 2
RECENCY_HALFLIFE_DAYS == 30
\* MIN_SIMILARITY_THRESHOLD = 0.45, similarities are counted in hundredths
MIN_SIMILARITY_THRESHOLD == 45
MESSAGE_FRESHNESS_HOURS == 8
MAX_STALE_MESSAGES == 3
TIME_BREAK_THRESHOLD_HOURS == 4
\* the literal 20 of processed_messages[-20:]
WINDOW_CAP == 20
\* WINDOW_MESSAGES, the default of the argument k of fetch_recent
WINDOW_MESSAGES == 20
\* USER_TZ = Europe/Berlin, taken at its standard offset from UTC, in hours
USER_TZ == 1

(***************************************************************************)
(* Strings                                                                 *)
(***************************************************************************)
IsSpace(c) == c = " "

\* a character that the regular expression \w matches
IsWordChar(c) == c \in {"a", "b", "A", "B", "q", "x", "_"}

LowerChar(c) == IF c = "A" THEN "a" ELSE IF c = "B" THEN "b" ELSE c

\* str.lower
Lower(s) == [i \in 1..Len(s) |-> LowerChar(s[i])]

RECURSIVE LStrip(_)
LStrip(s) == IF s # <<>> /\ IsSpace(Head(s)) THEN LStrip(Tail(s)) ELSE s

RECURSIVE RStrip(_)
RStrip(s) ==
  IF s # <<>> /\ IsSpace(s[Len(s)]) THEN RStrip(SubSeq(s, 1, Len(s) - 1)) ELSE s

\* str.strip
Strip(s) == RStrip(LStrip(s))

RECURSIVE Join(_)
\* "".join(chunks)
Join(ss) == IF ss = <<>> THEN <<>> ELSE Head(ss) \o Join(Tail(ss))

LastNWhole(s, n) == s

\* seq[-n:] of Python, for n > 0
LastN(s, n) == IF Len(s) <= n THEN s ELSE SubSeq(s, Len(s) - n + 1, Len(s))

IsPrefix(s, t) == Len(s) <= Len(t) /\ SubSeq(t, 1, Len(s)) = s

(***************************************************************************)
(* State                                                                   *)
(***************************************************************************)
VARIABLES
  fileState,  \* LOG_FILE: "absent", "complete" or "writing"
  fileData,   \* the log that LOG_FILE holds, or that is being written to it
  committed,  \* the log that the last finished _save_log wrote
  lock,       \* holder of _log_lock, NoThread when free
  pc,         \* position of each call
  kind,       \* "call" (Ted.__call__), "stream" (Ted.stream_reply), "read"
              \* (fetch_recent of the chat log endpoint), "append" (append_message)
  user,       \* user_id of each call
  loaded,     \* data of append_message, between _load_log and _save_log
  role,       \* role of the turn that append_message is appending
  recent,     \* what fetch_recent read for the call's user
  recentAt,   \* the committed log of that user when fetch_recent read
  chunks,     \* tokens yielded so far by stream_reply
  reply,      \* the assembled reply
  outcome,    \* how the foreground call ended
  pool,       \* _EXECUTOR: submitted tasks not yet started
  running,    \* _EXECUTOR: tasks a worker is running
  submitted,  \* every task ever handed to _EXECUTOR.submit
  memStore,   \* requests whose turn pair memory.add has stored
  errLog,     \* requests whose store failure was logged
  query,      \* retrieve: the query
  hits,       \* retrieve: raw hits of the search collaborator
  k,          \* retrieve: number of memories asked for
  searchOk,   \* retrieve: whether memory.search returns
  rres,       \* retrieve: outcome
  msgs,       \* filter_messages_by_time_gaps: its argument
  fres,       \* filter_messages_by_time_gaps: outcome
  turns,      \* fetch_recent: the turns of the user in the log
  offset,     \* fetch_recent: its argument offset
  limit,      \* fetch_recent: its argument limit, NoLimit for None
  useTime,    \* fetch_recent: its argument use_time_filtering
  pres,       \* fetch_recent: outcome
  thread,     \* detect_conversation_resumption: its argument
  nowAt,      \* datetime.now(timezone.utc) of the resumption check, in hours
  dres,       \* detect_conversation_resumption: outcome
  agent,      \* the agent that builds the chat request: "ted" or "mentor"
  mode,       \* "call" (__call__, llm.chat) or "stream" (stream_reply, llm.chat_stream)
  window,     \* what fetch_recent returned to the agent
  sent        \* the messages handed to chat.completions.create

fileVars == <<fileState, fileData, committed, lock>>
reqVars == <<kind, user>>
localVars == <<loaded, role, recent, recentAt, chunks, reply>>
poolVars == <<pool, running, submitted>>
storeVars == <<memStore, errLog>>
logVars == <<fileVars, pc, reqVars, localVars, outcome, poolVars, storeVars>>
retrieveVars == <<query, hits, k, searchOk, rres>>
filterVars == <<msgs, fres>>
fetchVars == <<turns, offset, limit, useTime, pres>>
resumeVars == <<thread, nowAt, dres>>
chatVars == <<agent, mode, window, sent>>
pureVars == <<retrieveVars, filterVars, fetchVars, resumeVars, chatVars>>
vars == <<logVars, pureVars>>

(***************************************************************************)
(* The turn log and the reply paths                                        *)
(***************************************************************************)
Threads == 1..NumThreads
Callers == 1..NumCallers
NoThread == 0
Users == {"u1", "u2"}
Tokens == {<<"x">>}
\* the text of the user message of request t
UserMsg(t) == <<"q">>

EmptyLog == [u \in Users |-> <<>>]

\* one record of the log; req names the call that wrote it (the timestamp of the
\* record, datetime.now at the append, is left out)
Turn(r, c, t) == [role |-> r, content |-> c, req |-> t]

\* json.load of LOG_FILE: {} when the file is missing or does not parse
ParseFile == IF fileState = "complete" THEN fileData ELSE EmptyLog

LoadLogEnabledNoLock == TRUE

\* _load_log returns at once when LOG_FILE is missing, else it takes _log_lock
LoadLogEnabled == fileState = "absent" \/ lock = NoThread

\* the task that stream_reply hands to the pool
StoreTask(t) == [req |-> t, writes |-> {"store"}]

\* the call ends: its local variables are gone, only how it ended is kept
Finish(t, how) ==
  /\ pc' = [pc EXCEPT ![t] = "done"]
  /\ outcome' = [outcome EXCEPT ![t] = how]
  /\ kind' = [kind EXCEPT ![t] = "none"]
  /\ user' = [user EXCEPT ![t] = "none"]
  /\ loaded' = [loaded EXCEPT ![t] = EmptyLog]
  /\ role' = [role EXCEPT ![t] = "user"]
  /\ recent' = [recent EXCEPT ![t] = <<>>]
  /\ recentAt' = [recentAt EXCEPT ![t] = <<>>]
  /\ chunks' = [chunks EXCEPT ![t] = <<>>]
  /\ reply' = [reply EXCEPT ![t] = <<>>]

\* a request arrives: Ted.__call__, Ted.stream_reply or the chat log endpoint
Start(t) ==
  /\ pc[t] = "idle"
  /\ \E kd \in {"call", "stream", "read"}, u \in Users :
       /\ kind' = [kind EXCEPT ![t] = kd]
       /\ user' = [user EXCEPT ![t] = u]
       /\ pc' = [pc EXCEPT ![t] = IF kd = "read" THEN "fetch" ELSE "retrieve"]
  /\ UNCHANGED <<fileVars, localVars, outcome, poolVars, storeVars, pureVars>>

\* a caller invokes append_message(user_id, role, content) on the MemoryManager
StartAppend(t) ==
  /\ pc[t] = "idle"
  /\ \E u \in Users, r \in {"user", "assistant"} :
       /\ user' = [user EXCEPT ![t] = u]
       /\ role' = [role EXCEPT ![t] = r]
  /\ kind' = [kind EXCEPT ![t] = "append"]
  /\ reply' = [reply EXCEPT ![t] = <<"x">>]
  /\ pc' = [pc EXCEPT ![t] = "load"]
  /\ UNCHANGED <<fileVars, loaded, recent, recentAt, chunks, outcome, poolVars,
                 storeVars, pureVars>>

\* a caller invokes fetch_recent(user_id) on the MemoryManager
StartRead(t) ==
  /\ pc[t] = "idle"
  /\ \E u \in Users : user' = [user EXCEPT ![t] = u]
  /\ kind' = [kind EXCEPT ![t] = "read"]
  /\ pc' = [pc EXCEPT ![t] = "fetch"]
  /\ UNCHANGED <<fileVars, localVars, outcome, poolVars, storeVars, pureVars>>

\* self.memory.retrieve(...) returns its text
RetrieveOk(t) ==
  /\ pc[t] = "retrieve"
  /\ pc' = [pc EXCEPT ![t] = "fetch"]
  /\ UNCHANGED <<fileVars, reqVars, localVars, outcome, poolVars, storeVars, pureVars>>

\* self.memory.retrieve(...) raises: nothing in the reply path catches it
RetrieveRaise(t) ==
  /\ pc[t] = "retrieve"
  /\ Finish(t, "raised_retrieve")
  /\ UNCHANGED <<fileVars, poolVars, storeVars, pureVars>>

\* fetch_recent: _load_log under the lock, then pure slicing of the user's turns
FetchRecent(t) ==
  /\ pc[t] = "fetch"
  /\ LoadLogEnabled
  /\ pc' = [pc EXCEPT ![t] = IF kind[t] = "read" THEN "fetched"
                             ELSE IF kind[t] = "call" THEN "chat" ELSE "stream"]
  /\ recent' = [recent EXCEPT ![t] = ParseFile[user[t]]]
  /\ recentAt' = [recentAt EXCEPT ![t] = committed[user[t]]]
  /\ UNCHANGED <<fileVars, reqVars, loaded, role, chunks, reply, outcome, poolVars,
                 storeVars, pureVars>>

\* fetch_recent returns the turns it read to its caller
ReadReturn(t) ==
  /\ pc[t] = "fetched"
  /\ Finish(t, "read")
  /\ UNCHANGED <<fileVars, poolVars, storeVars, pureVars>>

\* self.llm.chat is sent the recent turns and returns the reply
ChatOk(t) ==
  /\ pc[t] = "chat"
  /\ reply' = [reply EXCEPT ![t] = <<"x">>]
  /\ recent' = [recent EXCEPT ![t] = <<>>]
  /\ recentAt' = [recentAt EXCEPT ![t] = <<>>]
  /\ pc' = [pc EXCEPT ![t] = "store"]
  /\ UNCHANGED <<fileVars, reqVars, loaded, role, chunks, outcome, poolVars,
                 storeVars, pureVars>>

\* self.llm.chat raises
ChatRaise(t) ==
  /\ pc[t] = "chat"
  /\ Finish(t, "raised_llm")
  /\ UNCHANGED <<fileVars, poolVars, storeVars, pureVars>>

\* Ted.__call__: self.memory.store(...) in the calling thread, memory.add succeeds
StoreSyncOk(t) ==
  /\ pc[t] = "store"
  /\ memStore' = memStore \cup {t}
  /\ role' = [role EXCEPT ![t] = "user"]
  /\ pc' = [pc EXCEPT ![t] = "load"]
  /\ UNCHANGED <<fileVars, reqVars, loaded, recent, recentAt, chunks, reply, outcome,
                 poolVars, errLog, pureVars>>

\* Ted.__call__: memory.add raises, store logs the error and raises it again
StoreSyncRaise(t) ==
  /\ pc[t] = "store"
  /\ errLog' = errLog \cup {t}
  /\ Finish(t, "raised_store")
  /\ UNCHANGED <<fileVars, poolVars, memStore, pureVars>>

\* stream_reply: chat_stream produces a token, the generator yields it
StreamToken(t) ==
  /\ pc[t] = "stream"
  /\ Len(chunks[t]) < MaxTokens
  /\ \E tok \in Tokens : chunks' = [chunks EXCEPT ![t] = Append(@, tok)]
  /\ recent' = [recent EXCEPT ![t] = <<>>]
  /\ recentAt' = [recentAt EXCEPT ![t] = <<>>]
  /\ pc' = [pc EXCEPT ![t] = "yielded"]
  /\ UNCHANGED <<fileVars, reqVars, loaded, role, reply, outcome, poolVars,
                 storeVars, pureVars>>

\* the consumer asks for the next token
ConsumerNext(t) ==
  /\ pc[t] = "yielded"
  /\ pc' = [pc EXCEPT ![t] = "stream"]
  /\ UNCHANGED <<fileVars, reqVars, localVars, outcome, poolVars, storeVars, pureVars>>

\* the consumer closes the generator: GeneratorExit is raised at the yield and
\* no statement after the for loop runs
ConsumerClose(t) ==
  /\ pc[t] = "yielded"
  /\ Finish(t, "closed")
  /\ UNCHANGED <<fileVars, poolVars, storeVars, pureVars>>

StreamRaiseAfterSubmit(t) ==
  /\ pc[t] = "stream"
  /\ pool' = Append(pool, StoreTask(t))
  /\ submitted' = submitted \cup {StoreTask(t)}
  /\ Finish(t, "raised_llm")
  /\ UNCHANGED <<fileVars, running, storeVars, pureVars>>

\* chat_stream raises, before the first token or in mid-stream
StreamRaise(t) ==
  /\ pc[t] = "stream"
  /\ Finish(t, "raised_llm")
  /\ UNCHANGED <<fileVars, poolVars, storeVars, pureVars>>

\* the token stream ends: the reply is joined and stripped, memory.store is
\* submitted to _EXECUTOR with _log_when_done as its callback
StreamEnd(t) ==
  /\ pc[t] = "stream"
  /\ reply' = [reply EXCEPT ![t] = Strip(Join(chunks[t]))]
  /\ pool' = Append(pool, StoreTask(t))
  /\ submitted' = submitted \cup {StoreTask(t)}
  /\ role' = [role EXCEPT ![t] = "user"]
  /\ recent' = [recent EXCEPT ![t] = <<>>]
  /\ recentAt' = [recentAt EXCEPT ![t] = <<>>]
  /\ chunks' = [chunks EXCEPT ![t] = <<>>]
  /\ pc' = [pc EXCEPT ![t] = "load"]
  /\ UNCHANGED <<fileVars, reqVars, loaded, outcome, running, storeVars, pureVars>>

\* append_message: data = self._load_log(); data.setdefault(user_id, []).append(..)
AppendLoad(t) ==
  /\ pc[t] = "load"
  /\ LoadLogEnabled
  /\ loaded' = [loaded EXCEPT ![t] =
       [ParseFile EXCEPT ![user[t]] =
          Append(@, Turn(role[t], IF role[t] = "user" THEN UserMsg(t) ELSE reply[t], t))]]
  /\ pc' = [pc EXCEPT ![t] = "save"]
  /\ UNCHANGED <<fileVars, reqVars, role, recent, recentAt, chunks, reply, outcome,
                 poolVars, storeVars, pureVars>>

\* _save_log: take _log_lock; open(LOG_FILE, "w") truncates the file, and until
\* the file is closed it holds only a part of the text
SaveOpen(t) ==
  /\ pc[t] = "save"
  /\ lock = NoThread
  /\ lock' = t
  /\ fileState' = "writing"
  /\ fileData' = loaded[t]
  /\ loaded' = [loaded EXCEPT ![t] = EmptyLog]
  /\ pc' = [pc EXCEPT ![t] = "close"]
  /\ UNCHANGED <<committed, reqVars, role, recent, recentAt, chunks, reply, outcome,
                 poolVars, storeVars, pureVars>>

\* _save_log: json.dump is through and the file is closed with the whole text in
\* it, the lock is released; append_message returns, and the reply path appends
\* the assistant turn next or returns
SaveClose(t) ==
  /\ pc[t] = "close"
  /\ fileState' = "complete"
  /\ committed' = fileData
  /\ lock' = NoThread
  /\ IF kind[t] # "append" /\ role[t] = "user"
       THEN /\ role' = [role EXCEPT ![t] = "assistant"]
            /\ pc' = [pc EXCEPT ![t] = "load"]
            /\ UNCHANGED <<reqVars, loaded, recent, recentAt, chunks, reply, outcome>>
       ELSE Finish(t, IF kind[t] = "call" THEN "returned"
                      ELSE IF kind[t] = "stream" THEN "streamed" ELSE "appended")
  /\ UNCHANGED <<fileData, poolVars, storeVars, pureVars>>

\* a free worker of _EXECUTOR takes the oldest submitted task
WorkerStart ==
  /\ pool # <<>>
  /\ Cardinality(running) < MAX_THREAD_WORKERS
  /\ running' = running \cup {Head(pool)}
  /\ pool' = Tail(pool)
  /\ UNCHANGED <<fileVars, pc, reqVars, localVars, outcome, submitted, storeVars,
                 pureVars>>

\* the worker's memory.store returns
WorkerStoreOk(task) ==
  /\ task \in running
  /\ running' = running \ {task}
  /\ memStore' = memStore \cup {task.req}
  /\ UNCHANGED <<fileVars, pc, reqVars, localVars, outcome, pool, submitted, errLog,
                 pureVars>>

\* the worker's memory.store raises: the future holds the exception and
\* _log_when_done logs it
WorkerStoreRaise(task) ==
  /\ task \in running
  /\ running' = running \ {task}
  /\ errLog' = errLog \cup {task.req}
  /\ UNCHANGED <<fileVars, pc, reqVars, localVars, outcome, pool, submitted,
                 memStore, pureVars>>

\* the turns that an earlier session of user u1 left in LOG_FILE
EarlierLog ==
  [EmptyLog EXCEPT !["u1"] = <<Turn("user", <<"q">>, 0), Turn("assistant", <<"x">>, 0)>>]

InitLog(T, state, log) ==
  /\ fileState = state
  /\ fileData = log
  /\ committed = log
  /\ lock = NoThread
  /\ pc = [t \in T |-> "idle"]
  /\ kind = [t \in T |-> "none"]
  /\ user = [t \in T |-> "none"]
  /\ loaded = [t \in T |-> EmptyLog]
  /\ role = [t \in T |-> "user"]
  /\ recent = [t \in T |-> <<>>]
  /\ recentAt = [t \in T |-> <<>>]
  /\ chunks = [t \in T |-> <<>>]
  /\ reply = [t \in T |-> <<>>]
  /\ outcome = [t \in T |-> "none"]
  /\ pool = <<>>
  /\ running = {}
  /\ submitted = {}
  /\ memStore = {}
  /\ errLog = {}

InitRetrieveIdle ==
  /\ query = <<>>
  /\ hits = <<>>
  /\ k = 1
  /\ searchOk = TRUE
  /\ rres = [status |-> "none"]

InitFilterIdle ==
  /\ msgs = <<>>
  /\ fres = [status |-> "none"]

InitFetchIdle ==
  /\ turns = <<>>
  /\ offset = 0
  /\ limit = 0
  /\ useTime = TRUE
  /\ pres = [status |-> "none"]

InitResumeIdle ==
  /\ thread = <<>>
  /\ nowAt = 0
  /\ dres = [status |-> "none"]

InitChatIdle ==
  /\ agent = "none"
  /\ mode = "none"
  /\ window = <<>>
  /\ sent = <<>>

Init ==
  /\ InitLog(Threads, "absent", EmptyLog)
  /\ InitRetrieveIdle /\ InitFilterIdle /\ InitFetchIdle /\ InitResumeIdle /\ InitChatIdle

Next ==
  \/ \E t \in Threads : Start(t)
  \/ \E t \in Threads : RetrieveOk(t)
  \/ \E t \in Threads : RetrieveRaise(t)
  \/ \E t \in Threads : FetchRecent(t)
  \/ \E t \in Threads : ReadReturn(t)
  \/ \E t \in Threads : ChatOk(t)
  \/ \E t \in Threads : ChatRaise(t)
  \/ \E t \in Threads : StoreSyncOk(t)
  \/ \E t \in Threads : StoreSyncRaise(t)
  \/ \E t \in Threads : StreamToken(t)
  \/ \E t \in Threads : ConsumerNext(t)
  \/ \E t \in Threads : ConsumerClose(t)
  \/ \E t \in Threads : StreamRaise(t)
  \/ \E t \in Threads : StreamEnd(t)
  \/ \E t \in Threads : AppendLoad(t)
  \/ \E t \in Threads : SaveOpen(t)
  \/ \E t \in Threads : SaveClose(t)
  \/ WorkerStart
  \/ \E task \in running : WorkerStoreOk(task)
  \/ \E task \in running : WorkerStoreRaise(task)

\* requests of the Ted agent running concurrently, one per thread
Spec == Init /\ [][Next]_vars

InitCallers ==
  /\ \/ InitLog(Callers, "absent", EmptyLog)
     \/ InitLog(Callers, "complete", EarlierLog)
  /\ InitRetrieveIdle /\ InitFilterIdle /\ InitFetchIdle /\ InitResumeIdle /\ InitChatIdle

NextLog ==
  \/ \E t \in Callers : StartAppend(t)
  \/ \E t \in Callers : StartRead(t)
  \/ \E t \in Callers : FetchRecent(t)
  \/ \E t \in Callers : ReadReturn(t)
  \/ \E t \in Callers : AppendLoad(t)
  \/ \E t \in Callers : SaveOpen(t)
  \/ \E t \in Callers : SaveClose(t)

\* threads calling append_message and fetch_recent on one MemoryManager, one
\* call each
SpecLog == InitCallers /\ [][NextLog]_vars

(***************************************************************************)
(* MemoryManager.retrieve                                                  *)
(***************************************************************************)
\* datetime.now(timezone.utc), in hours: 00:00 UTC of some day
NowUtc == 24000

\* a timestamp: kind "ok" with the hour it names, "bad" for a text that
\* datetime.fromisoformat rejects, "none" for a hit without metadata ts whose
\* created_at is null
Ts(kd, at) == [kind |-> kd, at |-> at]

\* ages of the hits, in hours: one hour, and one hour more than one half-life
\* (ages of whole half-lives make 0.5 ** (age_days / RECENCY_HALFLIFE_DAYS) a
\* power of two)
OldAge == RECENCY_HALFLIFE_DAYS * 24 + 1
HitAges == {1, OldAge}
\* the oldest age, in half-lives
OldestHalvings == (OldAge \div 24) \div RECENCY_HALFLIFE_DAYS

Fresh == Ts("ok", NowUtc - 1)
Old == Ts("ok", NowUtc - OldAge)

\* similarities, in hundredths: under the threshold, on it, above it
Sims == {44, 45, 90}

Hit(sim, ts, text) == [sim |-> sim, ts |-> ts, text |-> text]

\* what the search collaborator may return: fresh memories of every
\* similarity, old ones, ones whose timestamp does not parse or is null, ones
\* that differ from another in case, punctuation and outer blanks only, and one
\* without any word character
HitSet ==
  {Hit(sm, Fresh, tx) : sm \in Sims, tx \in {<<"a">>, <<"b">>}}
  \cup {Hit(90, Old, <<"a">>), Hit(90, Old, <<"b">>), Hit(44, Old, <<"b">>)}
  \cup {Hit(44, Ts("bad", 0), <<"a">>), Hit(90, Ts("bad", 0), <<"a">>),
        Hit(90, Ts("none", 0), <<"b">>)}
  \cup {Hit(90, Fresh, <<" ", "A", "!">>), Hit(90, Old, <<" ", "A", "!">>),
        Hit(90, Fresh, <<"!">>)}
  \cup {Hit(45, Fresh, <<"x">>)}

RECURSIVE SeqsUpTo(_, _)
\* the sequences over S of length at most n
SeqsUpTo(S, n) ==
  IF n = 0 THEN {<<>>}
  ELSE LET shorter == SeqsUpTo(S, n - 1)
       IN shorter \cup {Append(q, x) : q \in {q \in shorter : Len(q) = n - 1}, x \in S}

\* the queries: empty, blank, None, and one with text
NoneQuery == <<"None">>
Queries == {<<>>, <<" ">>, NoneQuery, <<"q", " ">>}

CleanQueryNoStrip(q) == IF q = NoneQuery THEN <<>> ELSE q

\* query = (query or "").strip()
CleanQuery(q) == IF q = NoneQuery THEN <<>> ELSE Strip(q)

RECURSIVE Pow2(_)
Pow2(n) == IF n = 0 THEN 1 ELSE 2 * Pow2(n - 1)

\* whether datetime.fromisoformat(ts_iso.replace("Z", "+00:00")) succeeds
TsParses(ts) == ts.kind = "ok"

\* (now_utc - ts).days, with ts = now_utc when the timestamp does not parse
AgeDays(ts) == IF TsParses(ts) THEN (NowUtc - ts.at) \div 24 ELSE 0

\* 0.5 ** (age_days / RECENCY_HALFLIFE_DAYS), as a multiple of
\* 0.5 ** OldestHalvings (exact for the ages of HitAges)
Recency(age_days) == Pow2(OldestHalvings - (age_days \div RECENCY_HALFLIFE_DAYS))

\* score(hit), in the unit 0.01 * 0.5 ** OldestHalvings
Score(hit) ==
  IF hit.sim < MIN_SIMILARITY_THRESHOLD THEN 0
  ELSE hit.sim * Recency(AgeDays(hit.ts))

RankedUnsorted(hs) == [p \in 1..Len(hs) |-> p]

\* sorted(raw_hits, key=score, reverse=True), as the indices of the hits: the
\* sort is stable, hits of equal score keep their order
Ranked(hs) ==
  LET n == Len(hs)
      before(i, j) == \/ Score(hs[i]) > Score(hs[j])
                      \/ Score(hs[i]) = Score(hs[j]) /\ i < j
      place(i) == 1 + Cardinality({j \in 1..n : before(j, i)})
  IN [p \in 1..n |-> CHOOSE i \in 1..n : place(i) = p]

RECURSIVE StripNonWord(_)
\* _DUPLICATE_REGEX.sub("", s)
StripNonWord(s) ==
  IF s = <<>> THEN <<>>
  ELSE IF IsWordChar(Head(s)) THEN <<Head(s)>> \o StripNonWord(Tail(s))
  ELSE StripNonWord(Tail(s))

\* sig = _DUPLICATE_REGEX.sub("", hit["memory"].lower())
Signature(text) == StripNonWord(Lower(text))

RECURSIVE PickFrom(_, _, _, _, _)
\* the loop that fills picked, from place i of ranked on; picked is the
\* sequence of the indices of the hits kept, in insertion order
PickFrom(hs, ranked, i, kk, picked) ==
  IF i > Len(ranked) \/ Len(picked) >= kk THEN picked
  ELSE LET sig == Signature(hs[ranked[i]].text)
           seen == {Signature(hs[picked[j]].text) : j \in 1..Len(picked)}
       IN IF sig # <<>> /\ sig \notin seen
            THEN PickFrom(hs, ranked, i + 1, kk, Append(picked, ranked[i]))
            ELSE PickFrom(hs, ranked, i + 1, kk, picked)

PickedFirstK(hs, kk) ==
  SubSeq(Ranked(hs), 1, IF kk < Len(hs) THEN kk ELSE Len(hs))

\* picked.values(), as indices of the hits
Picked(hs, kk) == PickFrom(hs, Ranked(hs), 1, kk, <<>>)

\* ts.astimezone(USER_TZ): the local day (date_hdr names it, with its weekday)
\* and the local hour (time_str)
LocalDay(ts) == (ts.at + USER_TZ) \div 24
LocalHour(ts) == (ts.at + USER_TZ) % 24

GroupKeysAll(hs, picked, keys) ==
  keys \o [j \in 1..Len(picked) |-> LocalDay(hs[picked[j]].ts)]

RECURSIVE GroupKeys(_, _, _)
\* the keys of grouped, in the order setdefault inserted them
GroupKeys(hs, picked, keys) ==
  IF picked = <<>> THEN keys
  ELSE LET d == LocalDay(hs[Head(picked)].ts)
       IN GroupKeys(hs, Tail(picked),
                    IF \E j \in 1..Len(keys) : keys[j] = d THEN keys ELSE Append(keys, d))

HeaderLine(d) == [hdr |-> TRUE, day |-> d, hour |-> 0, text |-> <<>>, hit |-> 0]
BulletLine(hs, i) ==
  [hdr |-> FALSE, day |-> LocalDay(hs[i].ts), hour |-> LocalHour(hs[i].ts),
   text |-> Strip(hs[i].text), hit |-> i]

RECURSIVE GroupLines(_, _, _)
\* lines: for each date header, the header and one bullet per hit of that date
GroupLines(hs, picked, keys) ==
  IF keys = <<>> THEN <<>>
  ELSE LET d == Head(keys)
           OfDay(i) == LocalDay(hs[i].ts) = d
           items == SelectSeq(picked, OfDay)
       IN <<HeaderLine(d)>> \o [j \in 1..Len(items) |-> BulletLine(hs, items[j])]
            \o GroupLines(hs, picked, Tail(keys))

RetrieveResult(st, called, picked, lines) ==
  [status |-> st, searched |-> called, picked |-> picked, lines |-> lines]

\* retrieve(query, user_id, k): "ok" with the lines of the text returned, or
\* "raised"
Retrieve(q, hs, kk, ok) ==
  IF CleanQuery(q) = <<>> THEN RetrieveResult("ok", FALSE, <<>>, <<>>)
  ELSE IF ~ok THEN RetrieveResult("raised", TRUE, <<>>, <<>>)
  ELSE LET picked == Picked(hs, kk)
       IN IF \E j \in 1..Len(picked) : ~TsParses(hs[picked[j]].ts)
            THEN RetrieveResult("raised", TRUE, picked, <<>>)
            ELSE RetrieveResult("ok", TRUE, picked,
                                GroupLines(hs, picked, GroupKeys(hs, picked, <<>>)))

\* the search collaborator is asked for top_k = k * 3 hits
TopK(kk) == kk * 3

InitRetrieve ==
  /\ query \in Queries
  /\ k \in 0..MaxK
  /\ searchOk \in BOOLEAN
  /\ hits \in IF CleanQuery(query) = <<>> \/ ~searchOk THEN {<<>>}
              ELSE {hs \in SeqsUpTo(HitSet, MaxHits) : Len(hs) <= TopK(k)}
  /\ rres = [status |-> "none"]
  /\ InitLog(Threads, "absent", EmptyLog)
  /\ InitFilterIdle /\ InitFetchIdle /\ InitResumeIdle /\ InitChatIdle

DoRetrieve ==
  /\ rres.status = "none"
  /\ rres' = Retrieve(query, hits, k, searchOk)
  /\ UNCHANGED <<logVars, query, hits, k, searchOk, filterVars, fetchVars, resumeVars,
                 chatVars>>

NextRetrieve == DoRetrieve

\* retrieve applied to every query, k and list of raw hits within the bounds
SpecRetrieve == InitRetrieve /\ [][NextRetrieve]_vars

(***************************************************************************)
(* filter_messages_by_time_gaps (the conversation segmenter)               *)
(***************************************************************************)
\* ages of the turns, in hours, around the thresholds of 4 and 8 hours
MsgAges == {0, 3, 4, 8, 9, 12, 13}

\* the timestamp of a turn: Ts("ok", hour), Ts("bad", 0) for a text that does
\* not parse, Ts("missing", 0) for a turn without the key "timestamp"
MsgTimestamps == {Ts("ok", NowUtc - a) : a \in MsgAges} \cup {Ts("bad", 0), Ts("missing", 0)}

\* the i-th turn of a list; content i stands for its text
Msg(i, ts) ==
  [role |-> IF i % 2 = 1 THEN "user" ELSE "assistant", content |-> i, timestamp |-> ts]

\* short lists with every timestamp drawn freely
ShortLists ==
  {[i \in 1..Len(tss) |-> Msg(i, tss[i])] : tss \in SeqsUpTo(MsgTimestamps, MaxMsgs)}

\* lists longer than WINDOW_CAP: p turns of one age, then turns of a younger age
LongLists ==
  {[i \in 1..n |-> Msg(i, Ts("ok", NowUtc - (IF i <= p THEN a1 ELSE a2)))] :
     n \in (WINDOW_CAP + 1)..(WINDOW_CAP + MaxOver),
     p \in {0, 1, WINDOW_CAP - 1, WINDOW_CAP, WINDOW_CAP + 1},
     a1 \in MsgAges, a2 \in MsgAges}

\* msg["parsed_timestamp"]: now_utc when the timestamp is missing or unparsable
ParsedTimestamp(m) == IF m.timestamp.kind = "ok" THEN m.timestamp.at ELSE NowUtc

\* msg["age_hours"]
AgeHours(m) == NowUtc - ParsedTimestamp(m)

IsBreakStrict(gap) == gap > TIME_BREAK_THRESHOLD_HOURS

\* gap >= TIME_BREAK_THRESHOLD_HOURS
IsBreak(gap) == gap >= TIME_BREAK_THRESHOLD_HOURS

\* breaks: the places i (counted from 1) whose turn comes a break after turn i-1
Breaks(ms) ==
  {i \in 2..Len(ms) : IsBreak(ParsedTimestamp(ms[i]) - ParsedTimestamp(ms[i - 1]))}

SetMax(S) == CHOOSE x \in S : \A y \in S : y <= x

AllFreshStrict(ms) == \A i \in 1..Len(ms) : AgeHours(ms[i]) < MESSAGE_FRESHNESS_HOURS

\* all(msg["age_hours"] <= MESSAGE_FRESHNESS_HOURS for msg in processed_messages)
AllFresh(ms) == \A i \in 1..Len(ms) : AgeHours(ms[i]) <= MESSAGE_FRESHNESS_HOURS

RecentSegmentUntruncated(ms) ==
  IF AllFresh(ms) THEN LastN(ms, WINDOW_CAP)
  ELSE IF Breaks(ms) # {} THEN SubSeq(ms, SetMax(Breaks(ms)), Len(ms))
  ELSE IF AgeHours(ms[Len(ms)]) > MESSAGE_FRESHNESS_HOURS
    THEN LastN(ms, MAX_STALE_MESSAGES)
    ELSE LastN(ms, WINDOW_CAP)

\* recent_segment of the code (the fully fresh path returns processed[-20:])
RecentSegment(ms) ==
  IF AllFresh(ms) THEN LastN(ms, WINDOW_CAP)
  ELSE IF Breaks(ms) # {}
    THEN LET segment == SubSeq(ms, SetMax(Breaks(ms)), Len(ms))
         IN IF AgeHours(segment[1]) > MESSAGE_FRESHNESS_HOURS
              THEN LastN(segment, MAX_STALE_MESSAGES)
              ELSE segment
    ELSE IF AgeHours(ms[Len(ms)]) > MESSAGE_FRESHNESS_HOURS
      THEN LastN(ms, MAX_STALE_MESSAGES)
      ELSE LastN(ms, WINDOW_CAP)

FilterResult(st, out) == [status |-> st, out |-> out]

FilterMessagesFromOldest(ms) ==
  IF ms = <<>> THEN FilterResult("ok", <<>>)
  ELSE FilterResult("ok", SubSeq(ms, 1, Len(RecentSegment(ms))))

\* filter_messages_by_time_gaps(messages): "ok" with the turns returned, or
\* "raised" (msg["timestamp"] of a returned turn that has no such key)
FilterMessagesByTimeGaps(ms) ==
  IF ms = <<>> THEN FilterResult("ok", <<>>)
  ELSE LET out == RecentSegment(ms)
       IN IF \E i \in 1..Len(out) : out[i].timestamp.kind = "missing"
            THEN FilterResult("raised", <<>>)
            ELSE FilterResult("ok", out)

InitFilter ==
  /\ msgs \in ShortLists \cup LongLists
  /\ fres = [status |-> "none"]
  /\ InitLog(Threads, "absent", EmptyLog)
  /\ InitRetrieveIdle /\ InitFetchIdle /\ InitResumeIdle /\ InitChatIdle

DoFilter ==
  /\ fres.status = "none"
  /\ fres' = FilterMessagesByTimeGaps(msgs)
  /\ UNCHANGED <<logVars, retrieveVars, msgs, fetchVars, resumeVars, chatVars>>

NextFilter == DoFilter

\* filter_messages_by_time_gaps applied to every list of turns within the bounds
SpecFilter == InitFilter /\ [][NextFilter]_vars

(***************************************************************************)
(* MemoryManager.fetch_recent (slicing of the user's turns)                *)
(***************************************************************************)
\* limit=None
NoLimit == 0 - 100

\* the logs of the user: n turns that are all fresh, all stale, stale but for the
\* newest, or fresh with a newest record that has no timestamp
FetchLogs ==
  {[i \in 1..n |-> Msg(i, ts)] : n \in 0..MaxTurns, ts \in {Ts("ok", NowUtc), Ts("ok", NowUtc - 13)}}
  \cup {[i \in 1..n |-> Msg(i, IF i < n THEN Ts("ok", NowUtc - 13) ELSE last)] :
          n \in 1..MaxTurns, last \in {Ts("ok", NowUtc), Ts("missing", 0)}}

Offsets == (0 - 1)..(MaxTurns + 1)
Limits == {NoLimit} \cup (0 - 1)..(MaxTurns + 1)

\* actual_limit = limit if limit is not None else k
ActualLimit(lim, kk) == IF lim # NoLimit THEN lim ELSE kk

StartIndexNoOffset(total, off, lim) == IF total - lim > 0 THEN total - lim ELSE 0

\* start_index = max(0, total_messages - offset - actual_limit)
StartIndex(total, off, lim) == IF total - off - lim > 0 THEN total - off - lim ELSE 0

\* end_index = total_messages - offset
EndIndex(total, off) == total - off

\* messages[a:b] for a >= 0 and b >= 0
PySlice(ms, a, b) == SubSeq(ms, a + 1, IF b < Len(ms) THEN b ELSE Len(ms))

\* msg.get("timestamp", datetime.now(UTC).isoformat())
TimestampOrNow(m) == IF m.timestamp.kind = "missing" THEN Ts("ok", NowUtc) ELSE m.timestamp

PageResult(st, out) == [status |-> st, out |-> out]

\* fetch_recent(user_id, k, use_time_filtering, offset, limit) on the turns ms
\* that _load_log gave for the user
FetchRecentResult(ms, kk, use, off, lim) ==
  IF ms = <<>> \/ off >= Len(ms) THEN PageResult("ok", <<>>)
  ELSE LET raw == PySlice(ms, StartIndex(Len(ms), off, ActualLimit(lim, kk)),
                          EndIndex(Len(ms), off))
           filtered == IF use /\ off = 0 THEN FilterMessagesByTimeGaps(raw)
                       ELSE FilterResult("ok", raw)
       IN IF filtered.status = "raised" THEN PageResult("raised", <<>>)
          ELSE PageResult("ok",
                 [j \in 1..Len(filtered.out) |->
                    [role |-> filtered.out[j].role, content |-> filtered.out[j].content,
                     timestamp |-> TimestampOrNow(filtered.out[j])]])

InitFetch ==
  /\ turns \in FetchLogs
  /\ offset \in Offsets
  /\ limit \in Limits
  /\ useTime \in BOOLEAN
  /\ pres = [status |-> "none"]
  /\ InitLog(Threads, "absent", EmptyLog)
  /\ InitRetrieveIdle /\ InitFilterIdle /\ InitResumeIdle /\ InitChatIdle

DoFetch ==
  /\ pres.status = "none"
  /\ pres' = FetchRecentResult(turns, WINDOW_MESSAGES, useTime, offset, limit)
  /\ UNCHANGED <<logVars, retrieveVars, filterVars, turns, offset, limit, useTime,
                 resumeVars, chatVars>>

NextFetch == DoFetch

\* fetch_recent applied to every log, offset and limit within the bounds
SpecFetch == InitFetch /\ [][NextFetch]_vars

(***************************************************************************)
(* detect_conversation_resumption                                          *)
(***************************************************************************)
\* the times of the check: the local hour is 5, 6, 8, 11 or 12
ResumeNows == {NowUtc + h : h \in {4, 5, 7, 10, 11}}

\* hours between the newest turn and the check, around 4, 12 and 20 hours; the
\* negative one is a timestamp that lies in the future
ResumeGaps == {0 - 1, 0, 4, 5, 11, 12, 19, 20, 25}

\* the timestamp of the newest turn: one that parses, a text that does not, a
\* null, or no key "timestamp" at all
NewestTimestamps(now) ==
  {Ts("ok", now - g) : g \in ResumeGaps} \cup {Ts("bad", 0), Ts("none", 0), Ts("missing", 0)}

\* lists of turns: the earlier turns are a day old, with or without timestamp
ResumeThreads(now) ==
  {<<>>} \cup
  {[i \in 1..n |-> Msg(i, IF i < n THEN earlier ELSE newest)] :
     n \in 1..MaxMsgs, newest \in NewestTimestamps(now),
     earlier \in {Ts("ok", now - 30), Ts("missing", 0)}}

\* the hint None
NoHint == "none"

ResumptionResult(st, is, hint) == [status |-> st, is |-> is, hint |-> hint]

TooFewTurnsNone(ms) == Len(ms) < 1

\* len(messages) < 2
TooFewTurns(ms) == Len(ms) < 2

\* whether messages[-1]["timestamp"].replace(...) and datetime.fromisoformat of it
\* succeed: the key is there, its value is a text, and the text parses
NewestParses(ms) ==
  /\ "timestamp" \in DOMAIN ms[Len(ms)]
  /\ ms[Len(ms)].timestamp.kind = "ok"

IsMorningTillNoon(hour) == 6 <= hour /\ hour <= 12

\* 6 <= local_time.hour <= 11
IsMorning(hour) == 6 <= hour /\ hour <= 11

ResumptionErrorRaised == ResumptionResult("raised", FALSE, NoHint)

\* except Exception: the warning is logged, then return False, None
OnResumptionError == ResumptionResult("ok", FALSE, NoHint)

\* detect_conversation_resumption(messages) at the time now
DetectConversationResumption(ms, now) ==
  IF TooFewTurns(ms) THEN ResumptionResult("ok", FALSE, NoHint)
  ELSE IF ~NewestParses(ms) THEN OnResumptionError
  ELSE LET gap_hours == now - ms[Len(ms)].timestamp.at
       IN IF gap_hours > TIME_BREAK_THRESHOLD_HOURS
            THEN IF gap_hours >= 12
                   THEN IF IsMorning(LocalHour(Ts("ok", now)))
                          THEN ResumptionResult("ok", TRUE, "morning after a break")
                        ELSE IF gap_hours >= 20
                          THEN ResumptionResult("ok", TRUE, "resuming after a long break")
                        ELSE ResumptionResult("ok", TRUE, "resuming conversation")
                   ELSE ResumptionResult("ok", TRUE, "continuing after a short break")
            ELSE ResumptionResult("ok", FALSE, NoHint)

InitResume ==
  /\ nowAt \in ResumeNows
  /\ thread \in ResumeThreads(nowAt)
  /\ dres = [status |-> "none"]
  /\ InitLog(Threads, "absent", EmptyLog)
  /\ InitRetrieveIdle /\ InitFilterIdle /\ InitFetchIdle /\ InitChatIdle

DoDetect ==
  /\ dres.status = "none"
  /\ dres' = DetectConversationResumption(thread, nowAt)
  /\ UNCHANGED <<logVars, retrieveVars, filterVars, fetchVars, thread, nowAt, chatVars>>

NextResume == DoDetect

\* detect_conversation_resumption applied to every list of turns and time of
\* the check within the bounds
SpecResume == InitResume /\ [][NextResume]_vars

(***************************************************************************)
(* The chat request that Ted and Mentor build from the recent turns        *)
(***************************************************************************)
\* what fetch_recent may return to the agent: every turn has the key
\* "timestamp"; the newest one parses or does not
ChatWindows(now) ==
  {<<>>} \cup
  {[i \in 1..n |-> Msg(i, IF i < n THEN Ts("ok", now - 30) ELSE newest)] :
     n \in 1..MaxMsgs,
     newest \in {Ts("ok", now - g) : g \in ResumeGaps} \cup {Ts("bad", 0)}}

\* Ted: llm_messages = [{"role": ..., "content": ...} for msg in recent_messages]
LlmMessages(recent_messages) ==
  [j \in 1..Len(recent_messages) |->
     [role |-> recent_messages[j].role, content |-> recent_messages[j].content]]

\* _format_system_prompt: the resumption hint of conversation_context, NoHint
\* when the context is left empty
ConversationContext(th, now) ==
  IF Len(th) > 0
    THEN LET r == DetectConversationResumption(th, now)
         IN IF r.is /\ r.hint # NoHint THEN r.hint ELSE NoHint
    ELSE NoHint

\* the messages that LLMClient.chat and LLMClient.chat_stream hand to
\* chat.completions.create: the system prompt, the thread, the user message
ChatMessages(th, now) ==
  <<[role |-> "system", content |-> [hint |-> ConversationContext(th, now)]]>>
    \o th \o <<[role |-> "user", content |-> UserMsg(0)]>>

InitChat ==
  /\ agent \in {"ted", "mentor"}
  /\ mode \in {"call", "stream"}
  /\ nowAt \in ResumeNows
  /\ window \in ChatWindows(nowAt)
  /\ sent = <<>>
  /\ thread = <<>>
  /\ dres = [status |-> "none"]
  /\ InitLog(Threads, "absent", EmptyLog)
  /\ InitRetrieveIdle /\ InitFilterIdle /\ InitFetchIdle

\* Ted.__call__ and Ted.stream_reply: the turns are stripped to role and content
\* and given to llm.chat / llm.chat_stream as thread
TedSend ==
  /\ agent = "ted"
  /\ sent = <<>>
  /\ sent' = ChatMessages(LlmMessages(window), nowAt)
  /\ UNCHANGED <<logVars, retrieveVars, filterVars, fetchVars, resumeVars, agent, mode,
                 window>>

\* Mentor.__call__ and Mentor.stream_reply: thread=recent
MentorSend ==
  /\ agent = "mentor"
  /\ sent = <<>>
  /\ sent' = ChatMessages(window, nowAt)
  /\ UNCHANGED <<logVars, retrieveVars, filterVars, fetchVars, resumeVars, agent, mode,
                 window>>

NextChat == TedSend \/ MentorSend

\* the chat request of either agent, in either mode, for every window of recent
\* turns within the bounds
SpecChat == InitChat /\ [][NextChat]_vars

(***************************************************************************)
(* Claims about the turn log and the reply paths                           *)
(***************************************************************************)

\* C1: the log of a user only ever grows by appends at its end: every record
\* that a finished append_message wrote stays in the log, unmodified and at the
\* same position, whatever append_message calls finish later, concurrent ones
\* included.
C1_LogOnlyGrows ==
  [][\A u \in Users : IsPrefix(committed[u], committed'[u])]_vars

\* C2: appends of concurrent requests of one user do not interleave: in the log
\* a request's user turn is immediately followed by the assistant turn of the
\* same request (or is the last record, while that request has not appended its
\* assistant turn yet), and every assistant turn directly follows the user turn
\* of its request.
C2_TurnPairsAdjacent ==
  \A u \in Users :
    LET log == committed[u] IN
      \A i \in 1..Len(log) :
        /\ log[i].role = "user" /\ i < Len(log) =>
             log[i + 1].role = "assistant" /\ log[i + 1].req = log[i].req
        /\ log[i].role = "assistant" =>
             i > 1 /\ log[i - 1].role = "user" /\ log[i - 1].req = log[i].req

\* C4: an exception of the memory-store write never reaches the foreground
\* caller, in Ted.__call__ as in Ted.stream_reply; it is logged.
C4_StoreFailureContained ==
  \A t \in Threads : outcome[t] # "raised_store"

\* C13: a turn whose memory retrieval raised still ends with a reply: no call of
\* a reply path ends with the exception of retrieve.
C13_RetrievalFailureStillReplies ==
  \A t \in DOMAIN outcome : outcome[t] # "raised_retrieve"

\* C5: when the consumer closes the stream after at least one token (the
\* generator is closed at a yield, so a token was produced), the store write is
\* still dispatched.
C5_PartialReplyDispatched ==
  \A t \in Threads : outcome[t] = "closed" => StoreTask(t) \in submitted

\* C6: a streaming reply that produced zero tokens submits no store write.
C6_NoDispatchForEmptyReply ==
  [][\A t \in Threads :
       StoreTask(t) \in submitted' \ submitted => chunks[t] # <<>>]_vars

\* the durable write of a turn: the memory-store add and both appends
DurableWrite(t) == [req |-> t, writes |-> {"store", "append_user", "append_assistant"}]

\* C9: once a reply was returned or streamed to its end, the durable write (the
\* store add and both turn-log appends) has been handed to the worker pool; the
\* foreground path did not do it itself.
C9_DurableWriteOffloaded ==
  \A t \in Threads :
    outcome[t] \in {"returned", "streamed"} => DurableWrite(t) \in submitted

\* C10: what fetch_recent reads is the log that the last finished save wrote
\* (or the empty log when none was saved yet), also while append_message calls
\* run: never a truncated or half-written file.
C10_ReadsSeeCommittedLog ==
  \A t \in DOMAIN pc :
    pc[t] \in {"fetched", "chat", "stream"} => recent[t] = recentAt[t]

\* a fetch_recent has read a non-empty log while an append_message of another
\* thread is between its load and its save
C10_Witness ==
  \E t, w \in DOMAIN pc :
    /\ pc[t] = "fetched"
    /\ recent[t] # <<>>
    /\ kind[w] = "append"
    /\ pc[w] = "save"
    /\ fileState = "complete"
    /\ committed # EarlierLog

\* C23: an append_message for one user leaves the log of every other user
\* unchanged, also when appends for different users run concurrently: the log of
\* a user changes only in a save of an append for that user.
C23_OtherUsersUntouched ==
  [][\A u \in Users :
       committed'[u] # committed[u] => lock # NoThread /\ user[lock] = u]_vars

\* C27: when the chat-completion call fails, before the first token or in
\* mid-stream, the turn leaves the memory store and the turn log as they were: no
\* store write is made or submitted, and neither turn of the request is appended.
C27_ChatFailureLeavesNoTrace ==
  \A t \in DOMAIN outcome :
    outcome[t] = "raised_llm" =>
      /\ \A task \in submitted : task.req # t
      /\ t \notin memStore
      /\ t \notin errLog
      /\ \A u \in Users :
           /\ \A i \in 1..Len(committed[u]) : committed[u][i].req # t
           /\ \A i \in 1..Len(fileData[u]) : fileData[u][i].req # t

\* one request failed in the chat-completion call while another one was
\* streamed to its end and is in the log
C27_Witness ==
  \E t, o \in DOMAIN outcome :
    /\ outcome[t] = "raised_llm"
    /\ outcome[o] = "streamed"
    /\ \E u \in Users : Len(committed[u]) = 2

(***************************************************************************)
(* Claims about retrieve                                                   *)
(***************************************************************************)
\* the hits that the lines of the returned text show
ShownHits == {rres.lines[j].hit : j \in 1..Len(rres.lines)} \ {0}

PickedHits == {rres.picked[j] : j \in 1..Len(rres.picked)}

\* C3: a hit whose similarity is below MIN_SIMILARITY_THRESHOLD has score 0 and
\* is neither among the selected hits nor in the formatted output, whatever its
\* timestamp, the other hits and k.
C3_BelowThresholdNeverSelected ==
  rres.status # "none" =>
    \A i \in 1..Len(hits) :
      hits[i].sim < MIN_SIMILARITY_THRESHOLD =>
        Score(hits[i]) = 0 /\ i \notin PickedHits /\ i \notin ShownHits

\* C7: retrieve does not fail because of a timestamp: when the search returns,
\* retrieve returns its text, and a hit whose timestamp is unparsable or absent
\* is scored as fresh (age zero).
C7_TimestampNeverFatal ==
  rres.status # "none" /\ searchOk =>
    /\ rres.status = "ok"
    /\ \A i \in 1..Len(hits) : ~TsParses(hits[i].ts) => AgeDays(hits[i].ts) = 0

\* C11: retrieve selects at most k hits, and no two selected hits have the same
\* canonical signature (lower-cased text without its non-word characters).
C11_AtMostKDistinctSignatures ==
  rres.status # "none" =>
    /\ Len(rres.picked) <= k
    /\ \A i, j \in 1..Len(rres.picked) :
         i # j => Signature(hits[rres.picked[i]].text) # Signature(hits[rres.picked[j]].text)

\* retrieve has selected k hits from a list that has more than k signatures and
\* two hits whose texts differ in case or punctuation only
C11_Witness ==
  /\ rres.status = "ok"
  /\ k >= 1
  /\ Len(rres.picked) = k
  /\ Cardinality({Signature(hits[i].text) : i \in 1..Len(hits)} \ {<<>>}) > k
  /\ \E i, j \in 1..Len(hits) :
       /\ hits[i].text # hits[j].text
       /\ Signature(hits[i].text) = Signature(hits[j].text)
       /\ \E p \in 1..Len(rres.picked) : rres.picked[p] = i

\* the query is None or has no character other than blanks
BlankQuery == query = NoneQuery \/ \A i \in 1..Len(query) : IsSpace(query[i])

\* C14: retrieve called with an empty, blank or None query returns the empty
\* string and does not call the search collaborator.
C14_BlankQueryNotSearched ==
  rres.status # "none" /\ BlankQuery =>
    rres.status = "ok" /\ ~rres.searched /\ rres.lines = <<>>

\* retrieve has returned for a blank query while the search collaborator was down
C14_Witness ==
  /\ query = <<" ">>
  /\ ~searchOk
  /\ rres.status = "ok"
  /\ ~rres.searched

\* the lines of the returned text that are date headers, and those that are bullets
HeaderPlaces == {j \in 1..Len(rres.lines) : rres.lines[j].hdr}
BulletPlaces == {j \in 1..Len(rres.lines) : ~rres.lines[j].hdr}

\* the place in the selection of the first hit of local day d
FirstPickOfDay(d) ==
  CHOOSE p \in 1..Len(rres.picked) :
    /\ LocalDay(hits[rres.picked[p]].ts) = d
    /\ \A q \in 1..(p - 1) : LocalDay(hits[rres.picked[q]].ts) # d

\* the place in the selection of the hit that the bullet in line j shows
PickOfBullet(j) == CHOOSE p \in 1..Len(rres.picked) : rres.picked[p] = rres.lines[j].hit

\* C21: in the text that retrieve returns, date headers are unique and come in
\* the order in which each date's first hit occurs in the selection, the bullets
\* under a date are that date's hits in selection order, and there is one bullet
\* per selected hit.
C21_GroupedBySelectionOrder ==
  rres.status = "ok" =>
    /\ \A a, b \in HeaderPlaces : a # b => rres.lines[a].day # rres.lines[b].day
    /\ \A a, b \in HeaderPlaces :
         a < b => FirstPickOfDay(rres.lines[a].day) < FirstPickOfDay(rres.lines[b].day)
    /\ Cardinality(BulletPlaces) = Len(rres.picked)
    /\ {rres.lines[j].hit : j \in BulletPlaces} = PickedHits
    /\ \A j \in BulletPlaces :
         /\ j > 1
         /\ rres.lines[j].day = rres.lines[j - 1].day
         /\ ~rres.lines[j - 1].hdr => PickOfBullet(j - 1) < PickOfBullet(j)
    /\ Len(rres.picked) <= k

\* three hits were selected, the first and the third of one date and the second
\* of an earlier date: the text has the later date with two bullets, then the
\* earlier date
C21_Witness ==
  /\ rres.status = "ok"
  /\ Len(rres.picked) = 3
  /\ Len(rres.lines) = 5
  /\ LocalDay(hits[rres.picked[1]].ts) = LocalDay(hits[rres.picked[3]].ts)
  /\ LocalDay(hits[rres.picked[2]].ts) < LocalDay(hits[rres.picked[1]].ts)
  /\ rres.lines[1].hdr /\ ~rres.lines[2].hdr /\ ~rres.lines[3].hdr /\ rres.lines[4].hdr
  /\ rres.lines[3].hit = rres.picked[3]

\* the signatures of the raw hits that have a word character
HitSignatures == {Signature(hits[i].text) : i \in 1..Len(hits)} \ {<<>>}

\* C30: selection keeps, for each of the first k non-empty signatures met in
\* descending score order, the first hit met: no kept hit has an empty signature,
\* min(k, number of signatures) hits are kept, each kept hit has the highest score
\* among the hits of its signature, a signature left out has no hit that scores
\* higher than a kept one, and the kept hits are in descending score order.
C30_SelectionByScore ==
  rres.status # "none" /\ rres.searched /\ searchOk =>
    /\ \A p \in 1..Len(rres.picked) : Signature(hits[rres.picked[p]].text) # <<>>
    /\ Len(rres.picked) =
         IF k < Cardinality(HitSignatures) THEN k ELSE Cardinality(HitSignatures)
    /\ \A p \in 1..Len(rres.picked) : \A i \in 1..Len(hits) :
         Signature(hits[i].text) = Signature(hits[rres.picked[p]].text)
           => Score(hits[i]) <= Score(hits[rres.picked[p]])
    /\ \A p \in 1..Len(rres.picked) : \A i \in 1..Len(hits) :
         Signature(hits[i].text) \in
             HitSignatures \ {Signature(hits[rres.picked[q]].text) : q \in 1..Len(rres.picked)}
           => Score(hits[i]) <= Score(hits[rres.picked[p]])
    /\ \A p \in 2..Len(rres.picked) :
         Score(hits[rres.picked[p - 1]]) >= Score(hits[rres.picked[p]])

\* of two hits with one signature the later, higher scoring one was kept, a hit
\* without word character was passed over, and a third signature was left out
C30_Witness ==
  /\ rres.status = "ok"
  /\ k = 1
  /\ Len(hits) = 3
  /\ Signature(hits[1].text) = <<>>
  /\ Signature(hits[2].text) = Signature(hits[3].text)
  /\ Score(hits[2]) < Score(hits[3])
  /\ rres.picked = <<3>>

(***************************************************************************)
(* Claims about filter_messages_by_time_gaps                               *)
(***************************************************************************)
\* every timestamp parses and no turn is older than the turn before it
Chronological(ms) ==
  /\ \A i \in 1..Len(ms) : ms[i].timestamp.kind = "ok"
  /\ \A i \in 2..Len(ms) : ms[i - 1].timestamp.at <= ms[i].timestamp.at

\* the places i whose turn comes at least TIME_BREAK_THRESHOLD_HOURS after turn i-1
Gaps(ms) ==
  {i \in 2..Len(ms) :
     ms[i].timestamp.at - ms[i - 1].timestamp.at >= TIME_BREAK_THRESHOLD_HOURS}

\* the output has no turn from before the one gap of the input
OnlyFromGapOnward ==
  /\ fres.status = "ok"
  /\ \A j \in 1..Len(fres.out) : \A g \in Gaps(msgs) : fres.out[j].content >= g

\* C8 as stated: for chronologically ordered turns with exactly one gap of at
\* least BREAK_HOURS, only turns from that gap onward are returned.
C8_Original ==
  fres.status # "none" /\ Chronological(msgs) /\ Cardinality(Gaps(msgs)) = 1
    => OnlyFromGapOnward

\* C8 amended: for chronologically ordered turns with exactly one gap of at
\* least BREAK_HOURS, of which at least one turn is older than FRESHNESS_HOURS,
\* only turns from that gap onward are returned.
C8_FromGapOnwardUnlessAllFresh ==
  /\ fres.status # "none"
  /\ Chronological(msgs)
  /\ Cardinality(Gaps(msgs)) = 1
  /\ \E i \in 1..Len(msgs) : NowUtc - msgs[i].timestamp.at > MESSAGE_FRESHNESS_HOURS
  => OnlyFromGapOnward

\* the segmenter has returned the turns after the one gap of a list whose turns
\* before the gap are stale, and has left those out
C8_Witness ==
  /\ fres.status = "ok"
  /\ Chronological(msgs)
  /\ Cardinality(Gaps(msgs)) = 1
  /\ NowUtc - msgs[1].timestamp.at > MESSAGE_FRESHNESS_HOURS
  /\ Len(fres.out) >= 2
  /\ Len(fres.out) < Len(msgs)
  /\ fres.out[1].content \in Gaps(msgs)

\* every turn of the list carries a timestamp, as a Turn of the log does
AllCarryTimestamp(ms) == \A i \in 1..Len(ms) : ms[i].timestamp.kind # "missing"

\* the output is the last n turns of the list ms, in their order
IsLastN(out, ms, n) ==
  /\ Len(out) = n
  /\ n <= Len(ms)
  /\ \A j \in 1..n : out[j] = ms[Len(ms) - n + j]

\* C15: given N turns that carry a timestamp and all have age at most
\* FRESHNESS_HOURS (an unparsable timestamp counts as now), the segmenter returns
\* exactly the last min(N, WINDOW_CAP) turns in their order, whatever the gaps.
C15_AllFreshReturnsLastWindow ==
  /\ fres.status # "none"
  /\ AllCarryTimestamp(msgs)
  /\ \A i \in 1..Len(msgs) : AgeHours(msgs[i]) <= MESSAGE_FRESHNESS_HOURS
  => /\ fres.status = "ok"
     /\ IsLastN(fres.out, msgs, IF Len(msgs) < WINDOW_CAP THEN Len(msgs) ELSE WINDOW_CAP)

\* more than WINDOW_CAP fresh turns, with a gap of BREAK_HOURS among them and a
\* turn exactly FRESHNESS_HOURS old, were cut to the last WINDOW_CAP
C15_Witness ==
  /\ fres.status = "ok"
  /\ Len(msgs) > WINDOW_CAP
  /\ \A i \in 1..Len(msgs) : AgeHours(msgs[i]) <= MESSAGE_FRESHNESS_HOURS
  /\ AgeHours(msgs[1]) = MESSAGE_FRESHNESS_HOURS
  /\ Breaks(msgs) # {}
  /\ Len(fres.out) = WINDOW_CAP

\* the turns are ordered oldest to newest by the time the segmenter gives them
OldestFirst(ms) ==
  \A i \in 2..Len(ms) : ParsedTimestamp(ms[i - 1]) <= ParsedTimestamp(ms[i])

\* the turns from the last conversation boundary to the end
LastSegment(ms) == SubSeq(ms, SetMax(Breaks(ms)), Len(ms))

\* C16: for turns that carry a timestamp, ordered oldest to newest: when a
\* conversation boundary exists and the oldest turn of the segment after the last
\* boundary is older than FRESHNESS_HOURS, the output is the last
\* min(MAX_STALE, segment length) turns of that segment.
C16_StaleSegmentTruncated ==
  /\ fres.status # "none"
  /\ AllCarryTimestamp(msgs)
  /\ OldestFirst(msgs)
  /\ Breaks(msgs) # {}
  /\ AgeHours(LastSegment(msgs)[1]) > MESSAGE_FRESHNESS_HOURS
  => /\ fres.status = "ok"
     /\ Len(fres.out) <= MAX_STALE_MESSAGES
     /\ IsLastN(fres.out, LastSegment(msgs),
                IF Len(LastSegment(msgs)) < MAX_STALE_MESSAGES
                  THEN Len(LastSegment(msgs)) ELSE MAX_STALE_MESSAGES)

\* a stale segment of more than MAX_STALE turns after a boundary was cut to its
\* last MAX_STALE turns
C16_Witness ==
  /\ fres.status = "ok"
  /\ AllCarryTimestamp(msgs)
  /\ OldestFirst(msgs)
  /\ Breaks(msgs) # {}
  /\ AgeHours(LastSegment(msgs)[1]) > MESSAGE_FRESHNESS_HOURS
  /\ Len(LastSegment(msgs)) > MAX_STALE_MESSAGES
  /\ Len(fres.out) = MAX_STALE_MESSAGES
  /\ fres.out[MAX_STALE_MESSAGES] = msgs[Len(msgs)]

\* C24: the segmenter never raises on a turn whose timestamp is missing or
\* unparsable; such a turn counts as being of now and is returned like any other.
C24_MissingTimestampNotFatal == fres.status # "raised"

\* C26: in time-gap mode the output of the segmenter never has more than
\* WINDOW_CAP turns, for an input of any length and any timestamps.
C26_AtMostWindowCap == fres.status = "ok" => Len(fres.out) <= WINDOW_CAP

\* C28: for chronologically ordered turns whose newest turn is older than
\* FRESHNESS_HOURS, the segmenter returns at most MAX_STALE turns, whether or not
\* the input has a conversation boundary.
C28_StaleNewestAtMostMaxStale ==
  /\ fres.status # "none"
  /\ Chronological(msgs)
  /\ Len(msgs) >= 1
  /\ NowUtc - msgs[Len(msgs)].timestamp.at > MESSAGE_FRESHNESS_HOURS
  => fres.status = "ok" /\ Len(fres.out) <= MAX_STALE_MESSAGES

\* more than WINDOW_CAP turns without any boundary, the newest of them stale,
\* were cut to MAX_STALE turns
C28_Witness ==
  /\ fres.status = "ok"
  /\ Chronological(msgs)
  /\ Len(msgs) > WINDOW_CAP
  /\ Gaps(msgs) = {}
  /\ NowUtc - msgs[Len(msgs)].timestamp.at > MESSAGE_FRESHNESS_HOURS
  /\ Len(fres.out) = MAX_STALE_MESSAGES

\* C29: for a non-empty input whose turns all carry a timestamp, the segmenter
\* returns a non-empty contiguous suffix of the input: the same turns in the same
\* order, the newest turn last, role, content and timestamp unchanged.
C29_NonEmptySuffix ==
  fres.status # "none" /\ msgs # <<>> /\ AllCarryTimestamp(msgs) =>
    /\ fres.status = "ok"
    /\ Len(fres.out) >= 1
    /\ Len(fres.out) <= Len(msgs)
    /\ \A j \in 1..Len(fres.out) : fres.out[j] = msgs[Len(msgs) - Len(fres.out) + j]

\* of turns of which one has an unparsable timestamp, the older ones were left out
\* and two or more returned
C29_Witness ==
  /\ fres.status = "ok"
  /\ \E i \in 1..Len(msgs) : msgs[i].timestamp.kind = "bad"
  /\ Len(fres.out) >= 2
  /\ Len(fres.out) < Len(msgs)
  /\ fres.out[Len(fres.out)] = msgs[Len(msgs)]

(***************************************************************************)
(* Claims about fetch_recent                                               *)
(***************************************************************************)
\* the places of the log that the page turns[max(0, T-offset-limit) : T-offset]
\* covers, for T turns
PagePlaces(T, off, lim) ==
  {i \in 1..T : i > T - off - lim /\ i <= T - off}

\* the turn o returned is the record m of the log
SameTurn(o, m) ==
  /\ o.role = m.role
  /\ o.content = m.content
  /\ m.timestamp.kind # "missing" => o.timestamp = m.timestamp

\* C17: fetch_recent with time filtering off, on a log of T turns, returns the
\* empty list when offset >= T and otherwise exactly the turns
\* turns[max(0, T-offset-limit) : T-offset] in log order (limit None stands for k).
C17_PaginationSlice ==
  pres.status # "none" /\ ~useTime =>
    LET T == Len(turns)
        places == PagePlaces(T, offset, IF limit = NoLimit THEN WINDOW_MESSAGES ELSE limit)
        \* the place before the first one of the page (the slice ends at the end of
        \* the log when T - offset lies beyond it)
        base == (IF offset < 0 THEN T ELSE T - offset) - Len(pres.out)
    IN /\ pres.status = "ok"
       /\ offset >= T => pres.out = <<>>
       /\ offset < T =>
            /\ Len(pres.out) = Cardinality(places)
            /\ \A j \in 1..Len(pres.out) :
                 /\ base + j \in places
                 /\ SameTurn(pres.out[j], turns[base + j])
       /\ offset = 0 /\ limit >= 0 =>
            Len(pres.out) = IF limit < T THEN limit ELSE T

\* a page from the middle of the log: a positive offset, and a limit that leaves
\* older turns out
C17_Witness ==
  /\ pres.status = "ok"
  /\ ~useTime
  /\ offset >= 1
  /\ limit >= 2
  /\ Len(turns) - offset - limit >= 1
  /\ Len(pres.out) = limit
  /\ pres.out[1].content = Len(turns) - offset - limit + 1

\* fetch_recent returned exactly the offset/limit slice of the log
PageIsSlice ==
  LET T == Len(turns)
      places == PagePlaces(T, offset, IF limit = NoLimit THEN WINDOW_MESSAGES ELSE limit)
      out == pres.out
      base == (IF offset < 0 THEN T ELSE T - offset) - Len(out)
  IN /\ pres.status = "ok"
     /\ Len(out) = IF offset >= T THEN 0 ELSE Cardinality(places)
     /\ \A j \in 1..Len(out) : base + j \in places /\ SameTurn(out[j], turns[base + j])

\* C25: a call of fetch_recent that supplies a limit or a non-zero offset never
\* has the time-gap filter applied: its result is exactly the offset/limit slice
\* of the log.
C25_PaginationExcludesTimeFilter ==
  pres.status # "none" /\ (limit # NoLimit \/ offset # 0) => PageIsSlice

(***************************************************************************)
(* Claims about the chat request                                           *)
(***************************************************************************)
\* C12: every message handed to the chat-completion service carries role and
\* content only: the timestamp of a prior turn is stripped in every reply path
\* (Ted and Mentor, streaming and not).
C12_TimestampsStripped ==
  \A j \in 1..Len(sent) : DOMAIN sent[j] = {"role", "content"}

\* C22: in the reply paths of Ted, when the window of recent turns has at least
\* 2 turns and its newest turn is more than BREAK_HOURS old, the system prompt
\* carries the hint that detect_conversation_resumption computes for the window.
C22_TedPromptCarriesHint ==
  /\ agent = "ted"
  /\ sent # <<>>
  /\ Len(window) >= 2
  /\ window[Len(window)].timestamp.kind = "ok"
  /\ nowAt - window[Len(window)].timestamp.at > TIME_BREAK_THRESHOLD_HOURS
  => sent[1].content.hint = DetectConversationResumption(window, nowAt).hint

(***************************************************************************)
(* Claims about detect_conversation_resumption                             *)
(***************************************************************************)
\* hours from the newest turn of the list to the check
NewestGap == nowAt - thread[Len(thread)].timestamp.at

\* the local hour of the check
CheckHour == (nowAt + USER_TZ) % 24

\* C18: for at least 2 turns whose newest timestamp parses, with gap the time
\* from the newest turn to now: no resumption and no hint if gap <= 4h; "continuing
\* after a short break" if 4h < gap < 12h; "morning after a break" if gap >= 12h
\* and the local hour is in [6,12); otherwise "resuming after a long break" if
\* gap >= 20h; otherwise "resuming conversation".  The hint is non-null exactly
\* when a resumption is reported.
C18_ResumptionHint ==
  /\ dres.status # "none"
  /\ Len(thread) >= 2
  /\ thread[Len(thread)].timestamp.kind = "ok"
  => /\ dres.status = "ok"
     /\ dres.is <=> dres.hint # NoHint
     /\ dres.is <=> NewestGap > 4
     /\ NewestGap > 4 /\ NewestGap < 12 => dres.hint = "continuing after a short break"
     /\ NewestGap >= 12 /\ CheckHour >= 6 /\ CheckHour < 12 =>
          dres.hint = "morning after a break"
     /\ NewestGap >= 20 /\ ~(CheckHour >= 6 /\ CheckHour < 12) =>
          dres.hint = "resuming after a long break"
     /\ NewestGap >= 12 /\ NewestGap < 20 /\ ~(CheckHour >= 6 /\ CheckHour < 12) =>
          dres.hint = "resuming conversation"

\* a gap of 25 hours that ends at 08:00 local time gave the morning hint
C18_Witness ==
  /\ dres.status = "ok"
  /\ Len(thread) >= 2
  /\ thread[Len(thread)].timestamp.kind = "ok"
  /\ NewestGap = 25
  /\ CheckHour = 8
  /\ dres.hint = "morning after a break"

C20_ResumptionNeverRaises ==
  dres.status # "none" =>
    /\ dres.status = "ok"
    /\ Len(thread) >= 1 /\ thread[Len(thread)].timestamp.kind # "ok" =>
         ~dres.is /\ dres.hint = NoHint

\* the check returned for two or more turns whose newest has no timestamp
C20_Witness ==
  /\ dres.status = "ok"
  /\ Len(thread) >= 2
  /\ thread[Len(thread)].timestamp.kind = "missing"
  /\ ~dres.is

====
